---- MODULE Spec2Model ----
(***************************************************************************)
(* gif2png: the GIF decoder (ReadGif) and the PNG/APNG encoder (WritePng). *)
(*                                                                         *)
(* The decoder reads its input strictly forward and never looks back, so   *)
(* the input stream is modelled by the bytes that lie ahead of the reader  *)
(* at each step: every step of ReadGif is handed `in`, the rest of the     *)
(* stream as far as the step can look, consumes a prefix of it with the    *)
(* repository's own reading routines, and reaching the end of `in` is      *)
(* reaching the end of the file.                                           *)
(***************************************************************************)
EXTENDS Integers, Sequences, FiniteSets, TLC

VARIABLES
    pc,          \* where ReadGif / WritePng stands
    data,        \* ReadGif's local `data ImageData`
    nextDelay,   \* ReadGif's local `nextDelay`
    b,           \* the block introducer read by the current loop iteration
    label,       \* the extension label read after a 0x21 introducer
    ret,         \* what ReadGif returned: [image, err]
    png,         \* what WritePng wrote: [status, chunks]
    src,         \* what lay ahead of the reader in the last step (for the claims)
    rdr,         \* a blockReader on a stream of its own, and what its Reads gave
    stream,      \* a whole input fixed in advance: its bytes and the unread rest
    alt          \* what ReadGif returns for the same bytes from another reader

vars == <<pc, data, nextDelay, b, label, ret, png, src, rdr, stream, alt>>

\* the variables the decoding of a window-fed input and WritePng leave alone
apart == <<rdr, stream, alt>>

(***************************************************************************)
(* Bounds of the model.                                                    *)
(***************************************************************************)
MaxFrames == 2
MaxHeight == 3

(***************************************************************************)
(* Values.                                                                 *)
(***************************************************************************)
NoValue == [none |-> TRUE]
nil == "nil"
EOF == "EOF"
ErrUnexpectedEOF == "unexpected EOF"

Min(x, y) == IF x < y THEN x ELSE y
Pow2(n) == 2 ^ n
Take(s, n) == SubSeq(s, 1, n)
Drop(s, n) == SubSeq(s, n + 1, Len(s))
Uint16LE(s, at) == s[at] + 256 * s[at + 1]
Zeros(n) == [k \in 1..n |-> 0]

(***************************************************************************)
(* Bind(v, F) is F(v) with v evaluated once: the `x, err := f(r)` of the   *)
(* code, followed by the statements that use x and err.                    *)
(***************************************************************************)
Bind(v, F(_)) == CHOOSE y \in {F(w) : w \in {v}} : TRUE

(***************************************************************************)
(* Reading from the underlying stream.  A stream is the sequence of bytes  *)
(* still unread; every routine returns the error, the value and the bytes  *)
(* left unread.  The reader is an io.Reader.  The *os.File that readFile   *)
(* passes returns what is there, and (0, io.EOF) at the end of the file;   *)
(* an io.Reader may also return its last bytes together with io.EOF, and   *)
(* the stream of such a reader is its bytes followed by the mark Early.    *)
(***************************************************************************)
Early == 0 - 2
DataErrReader(bytes) == IF Len(bytes) = 0 THEN bytes ELSE Append(bytes, Early)

\* the bytes a reader can still deliver
Avail(r) == IF Len(r) > 0 /\ r[Len(r)] = Early THEN Len(r) - 1 ELSE Len(r)

\* n, err := r.Read(buf[:]) with len(buf) = 1; n = 0 at the end of the stream
readByte(r) ==
    IF Len(r) = 0
    THEN [err |-> ErrUnexpectedEOF, val |-> 0, rest |-> r]
    ELSE IF Avail(r) = 1 /\ Len(r) = 2
    THEN [err |-> EOF, val |-> Head(r), rest |-> <<>>]
    ELSE [err |-> nil, val |-> Head(r), rest |-> Tail(r)]

\* io.ReadFull on the underlying stream: Reads until n bytes are there, and
\* an error that comes with the last of them is dropped
ReadFull(r, n) ==
    IF n = 0 THEN [err |-> nil, val |-> <<>>, rest |-> r]
    ELSE IF Avail(r) > n THEN [err |-> nil, val |-> Take(r, n), rest |-> Drop(r, n)]
    ELSE IF Avail(r) = n THEN [err |-> nil, val |-> Take(r, n), rest |-> <<>>]
    ELSE IF Len(r) = 0 THEN [err |-> EOF, val |-> <<>>, rest |-> r]
    ELSE [err |-> ErrUnexpectedEOF, val |-> Take(r, Avail(r)), rest |-> <<>>]

(***************************************************************************)
(* blockReader: the sub-block framing.  A blockReader is                   *)
(* [buf, bufLen, bufNext, r], r being the underlying stream.               *)
(***************************************************************************)
newBlockReader(r) == [buf |-> <<>>, bufLen |-> 0, bufNext |-> 0, r |-> r]

readNextBlock(v) ==
    Bind(readByte(v.r), LAMBDA rb :
        IF rb.err = EOF THEN [err |-> ErrUnexpectedEOF, v |-> [v EXCEPT !.r = rb.rest]]
        ELSE IF rb.err # nil THEN [err |-> rb.err, v |-> [v EXCEPT !.r = rb.rest]]
        ELSE IF rb.val = 0 THEN [err |-> EOF, v |-> [v EXCEPT !.r = rb.rest]]
        ELSE Bind(ReadFull(rb.rest, rb.val), LAMBDA rf :
            IF rf.err = EOF THEN [err |-> ErrUnexpectedEOF, v |-> [v EXCEPT !.r = rf.rest]]
            ELSE IF rf.err # nil THEN [err |-> rf.err, v |-> [v EXCEPT !.r = rf.rest]]
            ELSE [err |-> nil,
                  v |-> [buf |-> rf.val, bufLen |-> rb.val, bufNext |-> 0,
                         r |-> rf.rest]]))

\* blockReader.Read copying from the start of buf
blockReadFromStart(v, plen) ==
    Bind(IF v.bufNext >= v.bufLen THEN readNextBlock(v) ELSE [err |-> nil, v |-> v],
         LAMBDA nb :
            IF nb.err # nil
            THEN [n |-> 0, err |-> nb.err, p |-> <<>>, v |-> nb.v]
            ELSE Bind(Min(plen, nb.v.bufLen - nb.v.bufNext), LAMBDA n :
                [n |-> n, err |-> nil,
                 p |-> SubSeq(nb.v.buf, 1, n),
                 v |-> [nb.v EXCEPT !.bufNext = nb.v.bufNext + n]]))

\* blockReader.Read(p) with len(p) = plen: [n, err, p (the n bytes), v]
blockRead(v, plen) ==
    Bind(IF v.bufNext >= v.bufLen THEN readNextBlock(v) ELSE [err |-> nil, v |-> v],
         LAMBDA nb :
            IF nb.err # nil
            THEN [n |-> 0, err |-> nb.err, p |-> <<>>, v |-> nb.v]
            ELSE Bind(Min(plen, nb.v.bufLen - nb.v.bufNext), LAMBDA n :
                [n |-> n, err |-> nil,
                 p |-> SubSeq(nb.v.buf, nb.v.bufNext + 1, nb.v.bufNext + n),
                 v |-> [nb.v EXCEPT !.bufNext = nb.v.bufNext + n]]))

\* io.ReadFull(v, buf) with len(buf) = n, on a blockReader; got: the bytes so far
RECURSIVE ReadFullBlocks(_, _, _)
ReadFullBlocks(v, n, got) ==
    IF Len(got) >= n THEN [err |-> nil, val |-> got, v |-> v]
    ELSE Bind(blockRead(v, n - Len(got)), LAMBDA rd :
            IF Len(got) + rd.n >= n THEN [err |-> nil, val |-> got \o rd.p, v |-> rd.v]
            ELSE IF rd.err = EOF /\ Len(got) + rd.n > 0
                 THEN [err |-> ErrUnexpectedEOF, val |-> got \o rd.p, v |-> rd.v]
            ELSE IF rd.err # nil THEN [err |-> rd.err, val |-> got \o rd.p, v |-> rd.v]
            ELSE ReadFullBlocks(rd.v, n, got \o rd.p))

blockBufSize == 255

RECURSIVE skipLoop(_)
skipLoop(br) ==
    Bind(blockRead(br, blockBufSize), LAMBDA rd :
        IF rd.err = EOF THEN [err |-> nil, rest |-> rd.v.r]
        ELSE IF rd.err # nil THEN [err |-> rd.err, rest |-> rd.v.r]
        ELSE skipLoop(rd.v))

\* skipBlock stopping after the first sub-block
skipBlockFirstOnly(r) ==
    Bind(blockRead(newBlockReader(r), blockBufSize), LAMBDA rd :
        IF rd.err = EOF THEN [err |-> nil, rest |-> rd.v.r]
        ELSE [err |-> rd.err, rest |-> rd.v.r])

skipBlock(r) == skipLoop(newBlockReader(r))

(***************************************************************************)
(* The fixed-size fields.                                                  *)
(***************************************************************************)
headerSize == 6
logicalScreenDescriptorSize == 7
imageDescriptorSize == 9
graphicControlExtensionSize == 4
applicationExtensionSize == 11

\* "GIF", "87a", "89a" as bytes
sigGIF == <<71, 73, 70>>
ver87a == <<56, 55, 97>>
ver89a == <<56, 57, 97>>

headerUnmarshal(d) == [Signature |-> SubSeq(d, 1, 3), Version |-> SubSeq(d, 4, 6)]

lsdUnmarshal(d) ==
    [LogicalScreenWidth     |-> Uint16LE(d, 1),
     LogicalScreenHeight    |-> Uint16LE(d, 3),
     GlobalColorTableFlag   |-> (d[5] \div 128) % 2 = 1,
     ColorResolution        |-> ((d[5] \div 16) % 8) + 1,
     SortFlag               |-> (d[5] \div 8) % 2 = 1,
     SizeOfGlobalColorTable |-> IF (d[5] \div 128) % 2 = 1 THEN Pow2((d[5] % 8) + 1) ELSE 0,
     BackgroundColorIndex   |-> d[6],
     PixelAspectRatio       |-> d[7],
     GlobalColorTable       |-> <<>>]

imageDescriptorUnmarshal(d) ==
    [ImageLeftPosition     |-> Uint16LE(d, 1),
     ImageTopPosition      |-> Uint16LE(d, 3),
     ImageWidth            |-> Uint16LE(d, 5),
     ImageHeight           |-> Uint16LE(d, 7),
     LocalColorTableFlag   |-> (d[9] \div 128) % 2 = 1,
     InterlaceFlag         |-> (d[9] \div 64) % 2 = 1,
     SortFlag              |-> (d[9] \div 32) % 2 = 1,
     SizeOfLocalColorTable |-> IF (d[9] \div 128) % 2 = 1 THEN Pow2((d[9] % 8) + 1) ELSE 0,
     LocalColorTable       |-> <<>>]

gceUnmarshal(d) ==
    [DisposalMethod        |-> (d[1] \div 4) % 8,
     UserInputFlag         |-> (d[1] \div 2) % 2 = 1,
     TransparentColorFlag  |-> d[1] % 2 = 1,
     DelayTime             |-> Uint16LE(d, 2),
     TransparentColorIndex |-> d[4]]

\* Palette.UnmarshalBinary on a palette made with `entries` zero entries
paletteUnmarshal(entries, d) ==
    IF entries * 3 # Len(d)
    THEN [k \in 1..entries |-> [r |-> 0, g |-> 0, b |-> 0]]
    ELSE [k \in 1..entries |-> [r |-> d[3 * k - 2], g |-> d[3 * k - 1], b |-> d[3 * k]]]

(***************************************************************************)
(* The readers of the fixed blocks: [err, val, rest].                      *)
(***************************************************************************)
ErrUnknownSignature == "Unknown signature: %s"
ErrUnknownVersion == "Unknown version: %s"
ErrColorResolution == "Not supported: ColorResolution != 8"
ErrUnknownBlock == "Unknown code: 0x%02x"
ErrUnknownExtension == "Unknown code: 0x21%02x"
ErrBlockSize == "Unexpected block size. expected: %d, actual: %d"
ErrLzwInvalidCode == "lzw: invalid code"
ErrLzwLitWidth == "lzw: litWidth %d out of range"

Failed(err, rest) == [err |-> err, val |-> NoValue, rest |-> rest]
Done(val, rest) == [err |-> nil, val |-> val, rest |-> rest]

\* readHeadser accepting "89a" only
knownVersionsOnly89a == {ver89a}

knownVersions == {ver87a, ver89a}

readHeadser(r) ==
    Bind(ReadFull(r, headerSize), LAMBDA rf :
        IF rf.err # nil THEN Failed(rf.err, rf.rest)
        ELSE Bind(headerUnmarshal(rf.val), LAMBDA hd :
            IF hd.Signature # sigGIF THEN Failed(ErrUnknownSignature, rf.rest)
            ELSE IF hd.Version \notin knownVersions
                 THEN Failed(ErrUnknownVersion, rf.rest)
            ELSE Done(hd, rf.rest)))

readLogicalScreenDescriptor(r) ==
    Bind(ReadFull(r, logicalScreenDescriptorSize), LAMBDA rf :
        IF rf.err # nil THEN Failed(rf.err, rf.rest)
        ELSE Bind(lsdUnmarshal(rf.val), LAMBDA ld :
            IF ~ld.GlobalColorTableFlag THEN Done(ld, rf.rest)
            ELSE Bind(ReadFull(rf.rest, ld.SizeOfGlobalColorTable * 3), LAMBDA rt :
                IF rt.err # nil THEN Failed(rt.err, rt.rest)
                ELSE Done([ld EXCEPT !.GlobalColorTable = rt.val], rt.rest))))

readImageDescriptor(r) ==
    Bind(ReadFull(r, imageDescriptorSize), LAMBDA rf :
        IF rf.err # nil THEN Failed(rf.err, rf.rest)
        ELSE Bind(imageDescriptorUnmarshal(rf.val), LAMBDA id :
            IF ~id.LocalColorTableFlag THEN Done(id, rf.rest)
            ELSE Bind(ReadFull(rf.rest, id.SizeOfLocalColorTable * 3), LAMBDA rt :
                IF rt.err # nil THEN Failed(rt.err, rt.rest)
                ELSE Done([id EXCEPT !.LocalColorTable = rt.val], rt.rest))))

readGraphicControlExtension(r) ==
    Bind(ReadFullBlocks(newBlockReader(r), graphicControlExtensionSize, <<>>), LAMBDA rf :
        IF rf.err # nil THEN Failed(rf.err, rf.v.r)
        ELSE Bind(skipBlock(rf.v.r), LAMBDA sk :
            IF sk.err # nil THEN Failed(sk.err, sk.rest)
            ELSE Done(gceUnmarshal(rf.val), sk.rest)))

readApplicationExtension(r) ==
    Bind(readByte(r), LAMBDA rb :
        IF rb.err # nil THEN Failed(rb.err, rb.rest)
        ELSE IF rb.val # applicationExtensionSize THEN Failed(ErrBlockSize, rb.rest)
        ELSE Bind(ReadFull(rb.rest, applicationExtensionSize), LAMBDA rf :
            IF rf.err # nil THEN Failed(rf.err, rf.rest)
            ELSE Bind(skipBlock(rf.rest), LAMBDA sk :
                IF sk.err # nil THEN Failed(sk.err, sk.rest)
                ELSE Done([ApplicationIdentifier |-> SubSeq(rf.val, 1, 8),
                           ApplicationAuthenticationCode |-> SubSeq(rf.val, 9, 11)],
                          sk.rest))))

(***************************************************************************)
(* compress/lzw over a blockReader, as readTableBasedImageData uses it.    *)
(* The library is not part of the repository; it is modelled by what it    *)
(* asks of the blockReader and what it hands back.  The code stream is     *)
(* abstracted to one code per payload byte and to the codes a stream       *)
(* without dictionary references holds: a literal (below the clear code),  *)
(* the clear code 2^litWidth, the end code clear+1; any other code is      *)
(* "lzw: invalid code".  As in the library, a Read decodes ahead until the *)
(* end code or an error (the frames of the model stay below its flush      *)
(* threshold), hands out what was decoded first and the error afterwards,  *)
(* and fetches its input through a bufio.Reader, one blockReader.Read (one *)
(* sub-block) at a time.                                                   *)
(***************************************************************************)
bufioSize == 4096

RECURSIVE lzwDecode(_, _, _, _)
lzwDecode(v, pending, clear, out) ==
    IF Len(pending) = 0
    THEN Bind(blockRead(v, bufioSize), LAMBDA rd :
            IF rd.err = EOF THEN [out |-> out, err |-> ErrUnexpectedEOF, v |-> rd.v]
            ELSE IF rd.err # nil THEN [out |-> out, err |-> rd.err, v |-> rd.v]
            ELSE lzwDecode(rd.v, rd.p, clear, out))
    ELSE Bind(Head(pending), LAMBDA code :
            IF code < clear THEN lzwDecode(v, Tail(pending), clear, Append(out, code))
            ELSE IF code = clear THEN lzwDecode(v, Tail(pending), clear, out)
            ELSE IF code = clear + 1 THEN [out |-> out, err |-> EOF, v |-> v]
            ELSE [out |-> out, err |-> ErrLzwInvalidCode, v |-> v])

\* io.ReadFull(lr, buf) leaving the rest of buf zero when the codes run out
lzwReadFullPadded(r, litWidth, n) ==
    IF n = 0 THEN Done(<<>>, r)
    ELSE IF litWidth < 2 \/ litWidth > 8 THEN Failed(ErrLzwLitWidth, r)
    ELSE Bind(lzwDecode(newBlockReader(r), <<>>, Pow2(litWidth), <<>>), LAMBDA dec :
            IF Len(dec.out) >= n THEN Done(Take(dec.out, n), dec.v.r)
            ELSE IF dec.err = EOF THEN Done(dec.out \o Zeros(n - Len(dec.out)), dec.v.r)
            ELSE Failed(dec.err, dec.v.r))

\* io.ReadFull(lr, buf) with len(buf) = n: [err, val, rest]
lzwReadFull(r, litWidth, n) ==
    IF n = 0 THEN Done(<<>>, r)
    ELSE IF litWidth < 2 \/ litWidth > 8 THEN Failed(ErrLzwLitWidth, r)
    ELSE Bind(lzwDecode(newBlockReader(r), <<>>, Pow2(litWidth), <<>>), LAMBDA dec :
            IF Len(dec.out) >= n THEN Done(Take(dec.out, n), dec.v.r)
            ELSE IF dec.err = EOF /\ Len(dec.out) > 0
                 THEN Failed(ErrUnexpectedEOF, dec.v.r)
            ELSE Failed(dec.err, dec.v.r))

(***************************************************************************)
(* The image model (the fields ReadGif and WritePng use) and the frame     *)
(* readers.  `var frame ImageFrame` and `var data ImageData` are Go zero   *)
(* values: every field 0, every slice empty.                               *)
(***************************************************************************)
zeroImageFrame ==
    [width |-> 0, height |-> 0, xOffset |-> 0, yOffset |-> 0, delay |-> 0,
     transparencyIndex |-> 0, palette |-> <<>>, data |-> <<>>]

zeroImageData ==
    [width |-> 0, height |-> 0, palette |-> <<>>, transparencyIndex |-> 0,
     frames |-> <<>>]

readTableBasedImageData(r, width, height) ==
    Bind(readByte(r), LAMBDA rb :
        IF rb.err # nil THEN Failed(rb.err, rb.rest)
        ELSE Bind(lzwReadFull(rb.rest, rb.val, width * height), LAMBDA lr :
            IF lr.err # nil THEN Failed(lr.err, lr.rest)
            ELSE Bind(skipBlock(lr.rest), LAMBDA sk :
                IF sk.err # nil THEN Failed(sk.err, sk.rest)
                ELSE Done([zeroImageFrame EXCEPT
                              !.width = width, !.height = height, !.data = lr.val],
                          sk.rest))))

(***************************************************************************)
(* deinterlace.  The rows are visited pass by pass; each visited row sy of *)
(* frame.data is copied to row dy of d, and dy, set to 0 before the loops, *)
(* is assigned nowhere in them.                                            *)
(***************************************************************************)
startingRow == <<0, 4, 2, 1>>
rowSkipSize == <<8, 8, 4, 2>>

RECURSIVE passRows(_, _, _)
passRows(sy, skip, height) ==
    IF sy < height THEN <<sy>> \o passRows(sy + skip, skip, height) ELSE <<>>

visitedRows(height) ==
    passRows(startingRow[1], rowSkipSize[1], height)
        \o passRows(startingRow[2], rowSkipSize[2], height)
        \o passRows(startingRow[3], rowSkipSize[3], height)
        \o passRows(startingRow[4], rowSkipSize[4], height)

\* copy(d[dy*width:(dy+1)*width], from[sy*width:(sy+1)*width])
copyRow(d, dy, from, sy, width) ==
    [k \in 1..Len(d) |->
        IF dy * width < k /\ k <= (dy + 1) * width
        THEN from[sy * width + (k - dy * width)]
        ELSE d[k]]

RECURSIVE deinterlaceLoop(_, _, _, _, _)
deinterlaceLoop(d, dy, rows, from, width) ==
    IF Len(rows) = 0 THEN d
    ELSE Bind(copyRow(d, dy, from, Head(rows), width), LAMBDA d1 :
            deinterlaceLoop(d1, dy, Tail(rows), from, width))

deinterlace(frame, width, height) ==
    deinterlaceLoop(Zeros(width * height), 0, visitedRows(height), frame.data, width)

(***************************************************************************)
(* The input.  What lies ahead of the reader at a step is                  *)
(* [op, wf, block, tail]: a block of the kind `op`, well-formed (complete  *)
(* and built to the GIF grammar) or not, followed by the bytes `tail`.     *)
(***************************************************************************)
U16(x) == <<x % 256, x \div 256>>

RECURSIVE Chain(_)
Chain(subs) ==
    IF Len(subs) = 0 THEN <<0>>
    ELSE <<Len(Head(subs))>> \o Head(subs) \o Chain(Tail(subs))

Prefixes(s) == {Take(s, k) : k \in 0..(Len(s) - 1)}

Win(op, wf, block, tail) == [op |-> op, wf |-> wf, block |-> block, tail |-> tail]

Tails == {<<>>, <<59>>}

\* header: "GIF"/"GIG"/"gif" with "87a"/"89a"/"88a"/"89b", and every cut of "GIF89a"
Signatures == {sigGIF, <<71, 73, 71>>, <<103, 105, 102>>}
Versions == {ver87a, ver89a, <<56, 56, 97>>, <<56, 57, 98>>}

HeaderInputs ==
    {Win("header", sg = sigGIF /\ vs \in {ver87a, ver89a}, sg \o vs, <<>>) :
        sg \in Signatures, vs \in Versions}
    \cup {Win("header", FALSE, c, <<>>) : c \in Prefixes(sigGIF \o ver89a)}

\* logical screen descriptor: size, packed flags, background, aspect, table
ScreenSizes == {<<300, 2>>}
GlobalTable == <<255, 0, 0, 0, 255, 0>>
lsdBytes(sz, packed) ==
    U16(sz[1]) \o U16(sz[2]) \o <<packed, 0, 0>>
        \o (IF packed >= 128 THEN GlobalTable ELSE <<>>)

\* 0x70: no table, resolution 8; 0xF0: 2-entry table, resolution 8; 0x78: sort
\* flag set; 0x60, 0xE0, 0x00: resolution 7, 7, 1
LsdPacked == {112, 240, 120, 96, 224, 0}

LsdInputs ==
    {Win("lsd", TRUE, lsdBytes(sz, pk), <<>>) : sz \in ScreenSizes, pk \in LsdPacked}
    \cup {Win("lsd", FALSE, c, <<>>) : c \in Prefixes(lsdBytes(<<300, 2>>, 240))}

\* graphic control extension: 0x21 0xF9, a 4-byte sub-block, the terminator
GceFlags == {0, 1}
GceDelays == {0, 300}
GceIndices == {1}
gceFields(fl, dl) == <<fl>> \o U16(dl) \o <<CHOOSE ix \in GceIndices : TRUE>>
gceBlock(fl, dl) == <<33, 249>> \o Chain(<<gceFields(fl, dl)>>)

GceInputs ==
    {Win("gce", TRUE, gceBlock(fl, dl), t) : fl \in GceFlags, dl \in GceDelays, t \in Tails}
    \* the four bytes spread over two sub-blocks; a 6-byte sub-block; a second sub-block
    \cup {Win("gce", FALSE, <<33, 249>> \o Chain(<<<<1, 44>>, <<1, 1>>>>), <<59>>),
          Win("gce", FALSE, <<33, 249>> \o Chain(<<gceFields(1, 300) \o <<9, 9>>>>), <<59>>),
          Win("gce", FALSE, <<33, 249>> \o Chain(<<gceFields(1, 300), <<65>>>>), <<59>>),
          Win("gce", FALSE, <<33, 249>> \o Chain(<<<<1, 44>>>>), <<59>>),
          Win("gce", FALSE, <<33, 249>> \o Chain(<<>>), <<59>>)}
    \cup {Win("gce", FALSE, Take(gceBlock(1, 300), k), <<>>) : k \in 2..7}

\* comment (0xFE) and plain text (0x01) extensions: a chain of sub-blocks
SubBlockLists == {<<>>, <<<<65>>>>, <<<<59, 0>>, <<66>>>>}
SkippedLabels == {254, 1}
skippedBlock(lab, subs) == <<33, lab>> \o Chain(subs)

SkippedInputs ==
    {Win("skipped", TRUE, skippedBlock(lab, subs), t) :
        lab \in SkippedLabels, subs \in SubBlockLists, t \in Tails}
    \cup {Win("skipped", FALSE, Take(skippedBlock(lab, <<<<59, 0>>, <<66>>>>), k), <<>>) :
            lab \in SkippedLabels, k \in 2..6}

\* application extension (0xFF): "NETSCAPE2.0" and the loop count, and chains
\* whose first sub-block is not the 11-byte identifier
Netscape == <<78, 69, 84, 83, 67, 65, 80, 69, 50, 46, 48>>
AppBlockLists ==
    {<<Netscape>>, <<Netscape, <<1, 0, 0>>>>, <<>>, <<<<65>>>>,
     <<Netscape \o <<49>>>>, <<<<65>>, Netscape>>}
appBlock(subs) == <<33, 255>> \o Chain(subs)

AppInputs ==
    {Win("application", TRUE, appBlock(subs), t) : subs \in AppBlockLists, t \in Tails}
    \cup {Win("application", FALSE, Take(appBlock(<<Netscape, <<1, 0, 0>>>>), k), <<>>) :
            k \in {2, 3, 10, 14, 15, 18}}

\* trailer, unknown introducers and labels, the end of the stream
TrailerInputs == {Win("trailer", TRUE, <<59>>, t) : t \in {<<>>, <<59>>, <<0>>}}
UnknownInputs ==
    {Win("unknown", FALSE, <<x>>, <<59>>) : x \in {0, 45, 249, 255}}
    \cup {Win("unknown", FALSE, <<33, x>>, <<0, 59>>) : x \in {0, 44, 59, 248}}
    \cup {Win("unknown", FALSE, <<33>>, <<>>)}
EndInputs == {Win("end", FALSE, <<>>, <<>>)}

\* image: 0x2C, descriptor, optional local table, code size, the data chain.
\* A frame of the input is [left, top, w, h, lct, il].
Fr(left, top, w, h, lct, il) ==
    [left |-> left, top |-> top, w |-> w, h |-> h, lct |-> lct, il |-> il]

FrameInputs ==
    {Fr(0, 0, 2, 2, FALSE, FALSE), Fr(1, 2, 1, 1, TRUE, FALSE),
     Fr(0, 0, 2, 0, FALSE, TRUE), Fr(0, 0, 2, MaxHeight, FALSE, TRUE)}

LocalTable == <<0, 0, 255, 255, 255, 0>>
LitWidth == 2
ClearCode == Pow2(LitWidth)
EndCode == ClearCode + 1
InvalidCode == ClearCode + 3

\* the pixels of a frame of the input: 0, 1, 2, 3, 0, ... in row-major order
Pixels(n) == [k \in 1..n |-> (k - 1) % ClearCode]

descriptorBytes(f) ==
    U16(f.left) \o U16(f.top) \o U16(f.w) \o U16(f.h)
        \o <<(IF f.lct THEN 128 ELSE 0) + (IF f.il THEN 64 ELSE 0)>>
        \o (IF f.lct THEN LocalTable ELSE <<>>)

imageBlock(f, lit, subs) == <<44>> \o descriptorBytes(f) \o <<lit>> \o Chain(subs)

\* the code stream in one sub-block; with the end code in a sub-block of its
\* own; followed by one more sub-block
GoodChains(c) ==
    {<<<<ClearCode>> \o c \o <<EndCode>>>>,
     <<<<ClearCode>> \o c, <<EndCode>>>>,
     <<<<ClearCode>> \o c \o <<EndCode>>, <<7, 7>>>>}

\* without end code; one pixel short; an invalid code in place of the last pixel
BadChains(c) ==
    {<<<<ClearCode>> \o c>>}
    \cup (IF Len(c) = 0 THEN {}
          ELSE {<<<<ClearCode>> \o Take(c, Len(c) - 1) \o <<EndCode>>>>,
                <<<<ClearCode>> \o Take(c, Len(c) - 1) \o <<InvalidCode, EndCode>>>>})

ImageInputs ==
    UNION {{Win("image", TRUE, imageBlock(f, LitWidth, ch), t) :
                ch \in GoodChains(Pixels(f.w * f.h)), t \in Tails} : f \in FrameInputs}
    \cup UNION {{Win("image", FALSE, imageBlock(f, LitWidth, ch), t) :
                ch \in BadChains(Pixels(f.w * f.h)), t \in Tails} : f \in FrameInputs}
    \* a code size the decompressor refuses
    \cup {Win("image", FALSE,
              imageBlock(f, 1, <<<<2>> \o Pixels(f.w * f.h) \o <<3>>>>), <<59>>) :
            f \in FrameInputs}
    \* the stream ends inside the block
    \cup {Win("image", FALSE,
              Take(imageBlock(Fr(0, 0, 1, 1, TRUE, FALSE), LitWidth,
                              <<<<ClearCode, 0, EndCode>>>>), k), <<>>) : k \in 1..21}

(***************************************************************************)
(* ReadGif.                                                                *)
(***************************************************************************)
NoByte == 0 - 1
NoRet == [image |-> NoValue, err |-> nil]
NoPng ==
    [status |-> "none", chunks |-> <<>>, writes |-> <<>>, n |-> 0, failAt |-> 0,
     err |-> "nil"]
NoSrc ==
    [op |-> "none", wf |-> FALSE, aligned |-> FALSE, block |-> <<>>, ahead |-> 0,
     frames |-> 0]

NoRdr ==
    [v |-> newBlockReader(<<>>), stream |-> <<>>, got |-> <<>>, plen |-> 0, n |-> 0,
     err |-> nil]
NoStream == [bytes |-> <<>>, rest |-> <<>>]

\* what a step met: the kind of block ahead, whether it was well-formed,
\* whether the step consumed exactly that block, its bytes, how many bytes
\* followed it, and how many frames had been appended before the step
Met(win, rest) ==
    [op |-> win.op, wf |-> win.wf, aligned |-> Len(rest) = Len(win.tail),
     block |-> win.block, ahead |-> Len(win.tail), frames |-> Len(data.frames)]

\* after a return the locals of ReadGif are gone
Gone == /\ data' = zeroImageData
        /\ nextDelay' = 0

Init ==
    /\ pc = "readHeader"
    /\ data = zeroImageData
    /\ nextDelay = 0
    /\ b = NoByte
    /\ label = NoByte
    /\ ret = NoRet
    /\ png = NoPng
    /\ src = NoSrc
    /\ rdr = NoRdr
    /\ stream = NoStream
    /\ alt = NoRet

\* lines 997-1000
ReadHeader ==
    /\ pc = "readHeader"
    /\ \E win \in HeaderInputs :
          \E rh \in {readHeadser(win.block \o win.tail)} :
              /\ src' = Met(win, rh.rest)
              /\ IF rh.err # nil
                 THEN pc' = "returned" /\ ret' = [image |-> NoValue, err |-> rh.err]
                 ELSE pc' = "readLSD" /\ ret' = ret
    /\ UNCHANGED <<data, nextDelay, b, label, png, apart>>

\* lines 1005-1026
ReadLSD ==
    /\ pc = "readLSD"
    /\ \E win \in LsdInputs :
          \E rl \in {readLogicalScreenDescriptor(win.block \o win.tail)} :
          \E ld \in {rl.val} :
          \E sized \in {IF rl.err # nil THEN data
                         ELSE [data EXCEPT !.width = ld.LogicalScreenWidth,
                                           !.height = ld.LogicalScreenHeight]} :
              /\ src' = Met(win, rl.rest)
              /\ IF rl.err # nil
                 THEN /\ pc' = "returned"
                      /\ ret' = [image |-> NoValue, err |-> rl.err]
                      /\ Gone
                 ELSE IF ld.ColorResolution # 8
                 THEN /\ pc' = "returned"
                      /\ ret' = [image |-> NoValue, err |-> ErrColorResolution]
                      /\ Gone
                 ELSE /\ pc' = "loop"
                      /\ ret' = ret
                      /\ data' = IF ld.GlobalColorTableFlag
                                 THEN [sized EXCEPT !.palette =
                                         paletteUnmarshal(ld.SizeOfGlobalColorTable,
                                                          ld.GlobalColorTable)]
                                 ELSE sized
                      /\ nextDelay' = 0
    /\ UNCHANGED <<b, label, png, apart>>

(***************************************************************************)
(* One iteration of the block loop (lines 1027-1113) on the stream r:      *)
(* [returned, image, err, data, nextDelay, b, label, rest].                *)
(***************************************************************************)
Returned(image, err, bb, lab, rest) ==
    [returned |-> TRUE, image |-> image, err |-> err, data |-> NoValue,
     nextDelay |-> 0, b |-> bb, label |-> lab, rest |-> rest]

Continued(dat, nd, bb, lab, rest) ==
    [returned |-> FALSE, image |-> NoValue, err |-> nil, data |-> dat,
     nextDelay |-> nd, b |-> bb, label |-> lab, rest |-> rest]

\* the frame placed with left and top exchanged
placeFrameSwapped(frame, i, nd) ==
    [frame EXCEPT !.xOffset = i.ImageTopPosition,
                  !.yOffset = i.ImageLeftPosition,
                  !.delay = nd]

\* the frame placed without the pending delay
placeFrameNoDelay(frame, i, nd) ==
    [frame EXCEPT !.xOffset = i.ImageLeftPosition,
                  !.yOffset = i.ImageTopPosition]

\* lines 1047-1049
placeFrame(frame, i, nd) ==
    [frame EXCEPT !.xOffset = i.ImageLeftPosition,
                  !.yOffset = i.ImageTopPosition,
                  !.delay = nd]

\* lines 1051-1054
paletteFrame(frame, i) ==
    IF i.LocalColorTableFlag
    THEN [frame EXCEPT !.palette =
            paletteUnmarshal(i.SizeOfLocalColorTable, i.LocalColorTable)]
    ELSE frame

\* lines 1056-1058
orderFrame(frame, i) ==
    IF i.InterlaceFlag
    THEN [frame EXCEPT !.data = deinterlace(frame, i.ImageWidth, i.ImageHeight)]
    ELSE frame

\* case 0x2C with the local color table stored as the image's palette too
imageCaseSharedPalette(dat, nd, bb, r) ==
    Bind(readImageDescriptor(r), LAMBDA ri :
        IF ri.err # nil THEN Returned(NoValue, ri.err, bb, NoByte, ri.rest)
        ELSE Bind(readTableBasedImageData(ri.rest, ri.val.ImageWidth, ri.val.ImageHeight),
                  LAMBDA rd :
            IF rd.err # nil THEN Returned(NoValue, rd.err, bb, NoByte, rd.rest)
            ELSE Bind(orderFrame(paletteFrame(placeFrame(rd.val, ri.val, nd), ri.val),
                                 ri.val),
                      LAMBDA frame :
                Continued([dat EXCEPT !.frames = Append(dat.frames, frame),
                                      !.palette = IF ri.val.LocalColorTableFlag
                                                  THEN frame.palette ELSE dat.palette],
                          nd, bb, NoByte, rd.rest))))

\* case 0x2C
imageCase(dat, nd, bb, r) ==
    Bind(readImageDescriptor(r), LAMBDA ri :
        IF ri.err # nil THEN Returned(NoValue, ri.err, bb, NoByte, ri.rest)
        ELSE Bind(readTableBasedImageData(ri.rest, ri.val.ImageWidth, ri.val.ImageHeight),
                  LAMBDA rd :
            IF rd.err # nil THEN Returned(NoValue, rd.err, bb, NoByte, rd.rest)
            ELSE Bind(orderFrame(paletteFrame(placeFrame(rd.val, ri.val, nd), ri.val),
                                 ri.val),
                      LAMBDA frame :
                Continued([dat EXCEPT !.frames = Append(dat.frames, frame)],
                          nd, bb, NoByte, rd.rest))))

\* case 0x21
extensionCase(dat, nd, bb, r) ==
    Bind(readByte(r), LAMBDA rb :
        IF rb.err # nil THEN Returned(NoValue, rb.err, bb, NoByte, rb.rest)
        ELSE IF rb.val = 249
        THEN Bind(readGraphicControlExtension(rb.rest), LAMBDA rg :
                IF rg.err # nil THEN Returned(NoValue, rg.err, bb, rb.val, rg.rest)
                ELSE Continued(dat, rg.val.DelayTime, bb, rb.val, rg.rest))
        ELSE IF rb.val = 254 \/ rb.val = 1
        THEN Bind(skipBlock(rb.rest), LAMBDA sk :
                IF sk.err # nil THEN Returned(NoValue, sk.err, bb, rb.val, sk.rest)
                ELSE Continued(dat, nd, bb, rb.val, sk.rest))
        ELSE IF rb.val = 255
        THEN Bind(readApplicationExtension(rb.rest), LAMBDA ra :
                IF ra.err # nil THEN Returned(NoValue, ra.err, bb, rb.val, ra.rest)
                ELSE Continued(dat, nd, bb, rb.val, ra.rest))
        ELSE Returned(NoValue, ErrUnknownExtension, bb, rb.val, rb.rest))

\* the loop going round again at an unknown introducer, the byte left unread
loopBodyPeeksUnknown(dat, nd, r) ==
    Bind(readByte(r), LAMBDA rb :
        IF rb.err # nil THEN Returned(NoValue, rb.err, NoByte, NoByte, rb.rest)
        ELSE IF rb.val = 44 THEN imageCase(dat, nd, rb.val, rb.rest)
        ELSE IF rb.val = 33 THEN extensionCase(dat, nd, rb.val, rb.rest)
        ELSE IF rb.val = 59 THEN Returned(dat, nil, rb.val, NoByte, rb.rest)
        ELSE Continued(dat, nd, rb.val, NoByte, r))

\* the loop going on to the next byte after an unknown introducer
loopBodySkipsUnknown(dat, nd, r) ==
    Bind(readByte(r), LAMBDA rb :
        IF rb.err # nil THEN Returned(NoValue, rb.err, NoByte, NoByte, rb.rest)
        ELSE IF rb.val = 44 THEN imageCase(dat, nd, rb.val, rb.rest)
        ELSE IF rb.val = 33 THEN extensionCase(dat, nd, rb.val, rb.rest)
        ELSE IF rb.val = 59 THEN Returned(dat, nil, rb.val, NoByte, rb.rest)
        ELSE Continued(dat, nd, rb.val, NoByte, rb.rest))

\* the loop returning what it has when the stream ends at an introducer
loopBodyPartialAtEnd(dat, nd, r) ==
    Bind(readByte(r), LAMBDA rb :
        IF rb.err # nil THEN Returned(dat, nil, NoByte, NoByte, rb.rest)
        ELSE IF rb.val = 44 THEN imageCase(dat, nd, rb.val, rb.rest)
        ELSE IF rb.val = 33 THEN extensionCase(dat, nd, rb.val, rb.rest)
        ELSE IF rb.val = 59 THEN Returned(dat, nil, rb.val, NoByte, rb.rest)
        ELSE Returned(NoValue, ErrUnknownBlock, rb.val, NoByte, rb.rest))

loopBody(dat, nd, r) ==
    Bind(readByte(r), LAMBDA rb :
        IF rb.err # nil THEN Returned(NoValue, rb.err, NoByte, NoByte, rb.rest)
        ELSE IF rb.val = 44 THEN imageCase(dat, nd, rb.val, rb.rest)
        ELSE IF rb.val = 33 THEN extensionCase(dat, nd, rb.val, rb.rest)
        ELSE IF rb.val = 59 THEN Returned(dat, nil, rb.val, NoByte, rb.rest)
        ELSE Returned(NoValue, ErrUnknownBlock, rb.val, NoByte, rb.rest))

\* lines 1005-1026 on the stream r, dat being the zero ImageData
readScreen(dat, r) ==
    Bind(readLogicalScreenDescriptor(r), LAMBDA rl :
        IF rl.err # nil THEN Returned(NoValue, rl.err, NoByte, NoByte, rl.rest)
        ELSE IF rl.val.ColorResolution # 8
        THEN Returned(NoValue, ErrColorResolution, NoByte, NoByte, rl.rest)
        ELSE Continued([dat EXCEPT
                           !.width = rl.val.LogicalScreenWidth,
                           !.height = rl.val.LogicalScreenHeight,
                           !.palette =
                               IF rl.val.GlobalColorTableFlag
                               THEN paletteUnmarshal(rl.val.SizeOfGlobalColorTable,
                                                     rl.val.GlobalColorTable)
                               ELSE dat.palette],
                       0, NoByte, NoByte, rl.rest))

\* the block loop run to its return
RECURSIVE blockLoop(_, _, _)
blockLoop(dat, nd, r) ==
    Bind(loopBody(dat, nd, r), LAMBDA o :
        IF o.returned THEN [image |-> o.image, err |-> o.err]
        ELSE blockLoop(o.data, o.nextDelay, o.rest))

\* ReadGif(r, verbose) as a function of the reader
ReadGif(r) ==
    Bind(readHeadser(r), LAMBDA rh :
        IF rh.err # nil THEN [image |-> NoValue, err |-> rh.err]
        ELSE Bind(readScreen(zeroImageData, rh.rest), LAMBDA sc :
            IF sc.returned THEN [image |-> sc.image, err |-> sc.err]
            ELSE blockLoop(sc.data, sc.nextDelay, sc.rest)))

LoopStep(win) ==
    \E o \in {loopBody(data, nextDelay, win.block \o win.tail)} :
        /\ pc = "loop"
        /\ b' = o.b
        /\ label' = o.label
        /\ src' = Met(win, o.rest)
        /\ IF o.returned
           THEN /\ pc' = "returned"
                /\ ret' = [image |-> o.image, err |-> o.err]
                /\ Gone
           ELSE /\ pc' = "loopEnd"
                /\ data' = o.data
                /\ nextDelay' = o.nextDelay
                /\ ret' = ret
        /\ UNCHANGED <<png, apart>>

\* the blocks the stream can hold at the top of the loop
ImageBlock ==
    /\ Len(data.frames) < MaxFrames
    /\ \E win \in ImageInputs : LoopStep(win)

GraphicControlBlock ==
    /\ pc = "loop"
    /\ \E win \in GceInputs : LoopStep(win)

SkippedBlock ==
    /\ pc = "loop"
    /\ \E win \in SkippedInputs : LoopStep(win)

ApplicationBlock ==
    /\ pc = "loop"
    /\ \E win \in AppInputs : LoopStep(win)

TrailerBlock ==
    /\ pc = "loop"
    /\ \E win \in TrailerInputs : LoopStep(win)

UnknownBlock ==
    /\ pc = "loop"
    /\ \E win \in UnknownInputs : LoopStep(win)

EndOfStream ==
    /\ pc = "loop"
    /\ \E win \in EndInputs : LoopStep(win)

\* the end of an iteration: b and the label go out of scope
LoopBack ==
    /\ pc = "loopEnd"
    /\ pc' = "loop"
    /\ b' = NoByte
    /\ label' = NoByte
    /\ src' = NoSrc
    /\ UNCHANGED <<data, nextDelay, ret, png, apart>>

(***************************************************************************)
(* WritePng.  The output is the sequence of chunks written, each with its  *)
(* type and its fields; the stream compress/zlib makes of a byte string is *)
(* kept as that byte string.  The writer is the *os.File that writeFile    *)
(* passes, and its writes succeed.  Indexing data.frames[0] of an empty    *)
(* slice panics: the run ends with the chunks written before it.           *)
(***************************************************************************)
\* uint32(x) of an int: the widths, offsets and counts converted are 16-bit
\* fields of the input and lengths of its frame list, all below 2^31
Uint32(x) == IF x >= 0 THEN x ELSE x + 2147483647 + 2147483647 + 2
Uint16(x) == x % 65536

paletteUsed == 1
trueColorUsed == 2
deflateCompression == 0
noneFilter == 0
noInterlace == 0

\* an image with no frame at all makes data.frames[0] panic
writeIHDR(dat) ==
    IF Len(dat.frames) = 0 THEN [panic |-> TRUE, chunks |-> <<>>]
    ELSE [panic |-> FALSE,
          chunks |-> <<[type |-> "IHDR",
                        Width |-> Uint32(dat.frames[1].width),
                        Height |-> Uint32(dat.frames[1].height),
                        BitDepth |-> 8,
                        ColorType |-> paletteUsed + trueColorUsed,
                        CompressionMethod |-> deflateCompression,
                        FilterMethod |-> noneFilter,
                        InterlaceMethod |-> noInterlace]>>]

RECURSIVE paletteMarshal(_)
paletteMarshal(p) ==
    IF Len(p) = 0 THEN <<>>
    ELSE <<Head(p).r, Head(p).g, Head(p).b>> \o paletteMarshal(Tail(p))

writePLTE(dat) == <<[type |-> "PLTE", data |-> paletteMarshal(dat.palette)]>>

\* tRNS of all 256 bytes, whatever the palette holds
writeTRNSWhole(entries, transparencyIndex) ==
    <<[type |-> "tRNS",
       data |-> [k \in 1..256 |-> IF k - 1 = transparencyIndex THEN 0 ELSE 255]]>>

writeTRNS(entries, transparencyIndex) ==
    <<[type |-> "tRNS",
       data |-> [k \in 1..entries |-> IF k - 1 = transparencyIndex THEN 0 ELSE 255]]>>

RECURSIVE serializeRows(_, _)
serializeRows(frame, i) ==
    IF i >= frame.height THEN <<>>
    ELSE <<0>> \o SubSeq(frame.data, frame.width * i + 1, frame.width * (i + 1))
             \o serializeRows(frame, i + 1)

\* the rows without their filter byte
serializeNoFilter(frame) == SubSeq(frame.data, 1, frame.width * frame.height)

serialize(frame) == serializeRows(frame, 0)

writeACTL(dat) == <<[type |-> "acTL", NumFrames |-> Uint32(Len(dat.frames)), NumPlays |-> 0]>>

\* fcTL with the blend-op 1 for every frame
writeFCTLBlendOver(frame, seq) ==
    <<[type |-> "fcTL",
       SequenceNumber |-> Uint32(seq),
       Width |-> Uint32(frame.width),
       Height |-> Uint32(frame.height),
       XOffset |-> Uint32(frame.xOffset),
       YOffset |-> Uint32(frame.yOffset),
       DelayNum |-> Uint16(frame.delay),
       DelayDen |-> 100,
       DisposeOp |-> 0,
       BlendOp |-> 1]>>

writeFCTL(frame, seq) ==
    <<[type |-> "fcTL",
       SequenceNumber |-> Uint32(seq),
       Width |-> Uint32(frame.width),
       Height |-> Uint32(frame.height),
       XOffset |-> Uint32(frame.xOffset),
       YOffset |-> Uint32(frame.yOffset),
       DelayNum |-> Uint16(frame.delay),
       DelayDen |-> 100,
       DisposeOp |-> 0,
       BlendOp |-> IF frame.transparencyIndex = 0 - 1 THEN 0 ELSE 1]>>

writeIDAT(dat) == <<[type |-> "IDAT", zlib |-> serialize(dat.frames[1])]>>

writeFDAT(frame, seq) ==
    <<[type |-> "fdAT", SequenceNumber |-> Uint32(seq), zlib |-> serialize(frame)]>>

writeIEND == <<[type |-> "IEND"]>>

\* the loop giving a frame's fdAT the number of its fcTL
RECURSIVE restFramesSameNumber(_, _)
restFramesSameNumber(frames, seq) ==
    IF Len(frames) = 0 THEN <<>>
    ELSE writeFCTL(Head(frames), seq) \o writeFDAT(Head(frames), seq)
            \o restFramesSameNumber(Tail(frames), seq + 1)

\* the loop over data.frames[1:], seq counting the fcTL and fdAT chunks
RECURSIVE restFrames(_, _)
restFrames(frames, seq) ==
    IF Len(frames) = 0 THEN <<>>
    ELSE writeFCTL(Head(frames), seq) \o writeFDAT(Head(frames), seq + 1)
            \o restFrames(Tail(frames), seq + 2)

\* the animation with acTL written after the first frame
writeAnimationPngDataLateActl(dat) ==
    writeFCTL(dat.frames[1], 0) \o writeIDAT(dat) \o writeACTL(dat)
        \o restFrames(Tail(dat.frames), 1) \o writeIEND

writeAnimationPngData(dat) ==
    writeACTL(dat) \o writeFCTL(dat.frames[1], 0) \o writeIDAT(dat)
        \o restFrames(Tail(dat.frames), 1) \o writeIEND

\* the still image left without IEND
writeNormalPngDataNoEnd(dat) == writeIDAT(dat)

writeNormalPngData(dat) == writeIDAT(dat) \o writeIEND

WritePngChunks(dat) ==
    Bind(writeIHDR(dat), LAMBDA ih :
        IF ih.panic THEN [status |-> "panic", chunks |-> <<>>]
        ELSE [status |-> "written",
              chunks |-> ih.chunks \o writePLTE(dat)
                  \o (IF dat.transparencyIndex # 0 - 1
                      THEN writeTRNS(Len(dat.palette), dat.transparencyIndex)
                      ELSE <<>>)
                  \o (IF Len(dat.frames) > 1 THEN writeAnimationPngData(dat)
                      ELSE writeNormalPngData(dat))])

(***************************************************************************)
(* The bytes of the output.  A writer is [writes, n, failAt]: the byte     *)
(* strings of the Write calls that succeeded, the number of Write calls    *)
(* made, and the call that fails (0: none does).  A checksum of hash/crc32 *)
(* is kept as the bytes it covers and a stream of compress/zlib as the     *)
(* bytes it compresses, each one item of the byte string that holds it.    *)
(***************************************************************************)
ErrWrite == "write error"

newWriter(failAt) == [writes |-> <<>>, n |-> 0, failAt |-> failAt]

\* w.Write(p): [w, err]
write(w, p) ==
    IF w.n + 1 = w.failAt
    THEN [w |-> [w EXCEPT !.n = w.n + 1], err |-> ErrWrite]
    ELSE [w |-> [w EXCEPT !.n = w.n + 1, !.writes = Append(w.writes, p)], err |-> nil]

\* binary.BigEndian.PutUint32 and PutUint16 (of values below 2^31)
PutUint32(x) ==
    <<(x \div 16777216) % 256, (x \div 65536) % 256, (x \div 256) % 256, x % 256>>

PutUint16(x) == <<(x \div 256) % 256, x % 256>>

ChecksumIEEE(p) == [crc32 |-> p]
crc32Update(crc, p) == [crc32 |-> crc.crc32 \o p]
zlibStream(raw) == <<[zlib |-> raw]>>

pngSignature == <<137, 80, 78, 71, 13, 10, 26, 10>>

\* []byte(chunkType)
typeBytes(t) ==
    CASE t = "IHDR" -> <<73, 72, 68, 82>>
      [] t = "PLTE" -> <<80, 76, 84, 69>>
      [] t = "tRNS" -> <<116, 82, 78, 83>>
      [] t = "acTL" -> <<97, 99, 84, 76>>
      [] t = "fcTL" -> <<102, 99, 84, 76>>
      [] t = "IDAT" -> <<73, 68, 65, 84>>
      [] t = "fdAT" -> <<102, 100, 65, 84>>
      [] t = "IEND" -> <<73, 69, 78, 68>>

imageHeaderMarshal(v) ==
    PutUint32(v.Width) \o PutUint32(v.Height)
        \o <<v.BitDepth, v.ColorType, v.CompressionMethod, v.FilterMethod,
             v.InterlaceMethod>>

frameControlMarshal(v) ==
    PutUint32(v.SequenceNumber) \o PutUint32(v.Width) \o PutUint32(v.Height)
        \o PutUint32(v.XOffset) \o PutUint32(v.YOffset)
        \o PutUint16(v.DelayNum) \o PutUint16(v.DelayDen)
        \o <<v.DisposeOp, v.BlendOp>>

\* the payload each writer of a chunk hands to writeChunk
payload(c) ==
    CASE c.type = "IHDR" -> imageHeaderMarshal(c)
      [] c.type = "PLTE" -> c.data
      [] c.type = "tRNS" -> c.data
      [] c.type = "acTL" -> PutUint32(c.NumFrames) \o PutUint32(c.NumPlays)
      [] c.type = "fcTL" -> frameControlMarshal(c)
      [] c.type = "IDAT" -> zlibStream(c.zlib)
      [] c.type = "fdAT" -> PutUint32(c.SequenceNumber) \o zlibStream(c.zlib)
      [] c.type = "IEND" -> <<>>

writePngSignature(w) == write(w, pngSignature)

\* writeChunk leaving out the check of the second Write
writeChunkUncheckedType(w, ctb, dta) ==
    Bind(write(w, PutUint32(Len(dta))), LAMBDA r1 :
        IF r1.err # nil THEN r1
        ELSE Bind(write(r1.w, ctb), LAMBDA r2 :
            Bind(write(r2.w, dta), LAMBDA r3 :
                IF r3.err # nil THEN r3
                ELSE write(r3.w, <<crc32Update(ChecksumIEEE(ctb), dta)>>))))

\* writeChunk with the checksum taken over the payload alone
writeChunkCrcOfPayload(w, ctb, dta) ==
    Bind(write(w, PutUint32(Len(dta))), LAMBDA r1 :
        IF r1.err # nil THEN r1
        ELSE Bind(write(r1.w, ctb), LAMBDA r2 :
            IF r2.err # nil THEN r2
            ELSE Bind(write(r2.w, dta), LAMBDA r3 :
                IF r3.err # nil THEN r3
                ELSE write(r3.w, <<ChecksumIEEE(dta)>>))))

writeChunk(w, ctb, dta) ==
    Bind(write(w, PutUint32(Len(dta))), LAMBDA r1 :
        IF r1.err # nil THEN r1
        ELSE Bind(write(r1.w, ctb), LAMBDA r2 :
            IF r2.err # nil THEN r2
            ELSE Bind(write(r2.w, dta), LAMBDA r3 :
                IF r3.err # nil THEN r3
                ELSE write(r3.w, <<crc32Update(ChecksumIEEE(ctb), dta)>>))))

\* the chunks in turn, each writer's error returned at once: [w, err, done]
RECURSIVE writeChunks(_, _, _)
writeChunks(w, chunks, done) ==
    IF Len(chunks) = 0 THEN [w |-> w, err |-> nil, done |-> done]
    ELSE Bind(writeChunk(w, typeBytes(Head(chunks).type), payload(Head(chunks))),
              LAMBDA r :
                IF r.err # nil THEN [w |-> r.w, err |-> r.err, done |-> done]
                ELSE writeChunks(r.w, Tail(chunks), Append(done, Head(chunks))))

Output(status, chunks, w, err) ==
    [status |-> status, chunks |-> chunks, writes |-> w.writes, n |-> w.n,
     failAt |-> w.failAt, err |-> err]

\* WritePng(w, data): the signature, then the chunks
WritePngTo(w, dat) ==
    Bind(writePngSignature(w), LAMBDA sg :
        IF sg.err # nil THEN Output("failed", <<>>, sg.w, sg.err)
        ELSE Bind(WritePngChunks(dat), LAMBDA all :
            IF all.status = "panic" THEN Output("panic", <<>>, sg.w, nil)
            ELSE Bind(writeChunks(sg.w, all.chunks, <<>>), LAMBDA r :
                Output(IF r.err # nil THEN "failed" ELSE "written", r.done, r.w, r.err))))

\* main: writeFile applies WritePng to the image readFile returned; the
\* locals of ReadGif are gone
WriteStep(failAt) ==
    /\ pc = "returned"
    /\ ret.err = nil
    /\ pc' = "written"
    /\ png' = WritePngTo(newWriter(failAt), ret.image)
    /\ b' = NoByte
    /\ label' = NoByte
    /\ src' = NoSrc
    /\ UNCHANGED <<data, nextDelay, ret, apart>>

\* every Write of the output file succeeds
WritePng == WriteStep(0)

Next ==
    \/ ReadHeader
    \/ ReadLSD
    \/ ImageBlock
    \/ GraphicControlBlock
    \/ SkippedBlock
    \/ ApplicationBlock
    \/ TrailerBlock
    \/ UnknownBlock
    \/ EndOfStream
    \/ LoopBack
    \/ WritePng

Spec == Init /\ [][Next]_vars

(***************************************************************************)
(* WritePng on its own: applied to the images of a bounded set, with an    *)
(* output file any one of whose Write calls may fail.                      *)
(***************************************************************************)
PngFrame(w, h, x, y, delay, ti) ==
    [width |-> w, height |-> h, xOffset |-> x, yOffset |-> y, delay |-> delay,
     transparencyIndex |-> ti, palette |-> <<>>, data |-> Pixels(w * h)]

PngFrames ==
    {PngFrame(2, 2, 0, 0, 0, 0 - 1), PngFrame(1, 1, 1, 2, 300, 1),
     PngFrame(2, MaxHeight, 0, 0, 10, 0)}

PngFrameLists == UNION {[1..k -> PngFrames] : k \in 1..MaxFrames}

PngImages ==
    {[width |-> 300, height |-> 2, palette |-> pal, transparencyIndex |-> ti,
      frames |-> fs] :
        pal \in {<<>>, paletteUnmarshal(2, GlobalTable)},
        ti \in {0 - 1, 0, 1},
        fs \in PngFrameLists}

\* the Write call of the output file that fails
MaxWrites == 1 + 4 * (5 + 2 * MaxFrames)

InitPng ==
    /\ pc = "returned"
    /\ data = zeroImageData
    /\ nextDelay = 0
    /\ b = NoByte
    /\ label = NoByte
    /\ ret \in {[image |-> im, err |-> nil] : im \in PngImages}
    /\ png = NoPng
    /\ src = NoSrc
    /\ rdr = NoRdr
    /\ stream = NoStream
    /\ alt = NoRet

WritePngFailing == \E failAt \in 1..MaxWrites : WriteStep(failAt)

NextPng ==
    \/ WritePng
    \/ WritePngFailing

SpecPng == InitPng /\ [][NextPng]_vars

(***************************************************************************)
(* The blockReader on its own: successive Reads, with the buffer sizes its *)
(* callers pass, on streams that hold a chain of sub-blocks, whole or cut  *)
(* short, until a Read returns an error.                                   *)
(***************************************************************************)
\* the last list holds a sub-block of 255 bytes
BlockLists ==
    {<<>>, <<<<65>>>>, <<<<59, 0>>, <<66>>>>, <<<<1, 2, 3, 4, 5>>, <<6>>, <<7, 8>>>>,
     <<[k \in 1..blockBufSize |-> 1 + (k % 7)], <<9>>>>}

BlockStreams ==
    {Chain(subs) \o t : subs \in BlockLists, t \in Tails}
    \cup Prefixes(Chain(<<<<1, 2, 3, 4, 5>>, <<6>>, <<7, 8>>>>))

\* len(p) in skipBlock, readGraphicControlExtension, bufio, and a single byte
BufferSizes == {1, graphicControlExtensionSize, blockBufSize, bufioSize}

InitBlocks ==
    /\ pc = "blockReader"
    /\ data = zeroImageData
    /\ nextDelay = 0
    /\ b = NoByte
    /\ label = NoByte
    /\ ret = NoRet
    /\ png = NoPng
    /\ src = NoSrc
    /\ rdr \in {[NoRdr EXCEPT !.v = newBlockReader(s), !.stream = s] : s \in BlockStreams}
    /\ stream = NoStream
    /\ alt = NoRet

BlockRead ==
    /\ pc = "blockReader"
    /\ rdr.err = nil
    /\ \E plen \in BufferSizes :
          \E rd \in {blockRead(rdr.v, plen)} :
              rdr' = [rdr EXCEPT !.v = rd.v, !.got = rdr.got \o rd.p, !.plen = plen,
                                 !.n = rd.n, !.err = rd.err]
    /\ UNCHANGED <<pc, data, nextDelay, b, label, ret, png, src, stream, alt>>

NextBlocks == BlockRead

SpecBlocks == InitBlocks /\ [][NextBlocks]_vars

(***************************************************************************)
(* ReadGif on an input fixed in advance: a whole file, or a file cut       *)
(* short, read step by step from a reader that behaves as the *os.File;    *)
(* then ReadGif again on the same bytes from a reader that returns the     *)
(* last byte together with io.EOF.                                         *)
(***************************************************************************)
RECURSIVE Flatten(_)
Flatten(ss) == IF Len(ss) = 0 THEN <<>> ELSE Head(ss) \o Flatten(Tail(ss))

FileBlocks ==
    {gceBlock(1, 300),
     skippedBlock(254, <<<<59, 0>>, <<66>>>>),
     appBlock(<<Netscape, <<1, 0, 0>>>>),
     imageBlock(Fr(0, 0, 2, 2, FALSE, FALSE), LitWidth,
                <<<<ClearCode>> \o Pixels(4) \o <<EndCode>>>>),
     imageBlock(Fr(1, 2, 1, 1, TRUE, FALSE), LitWidth,
                <<<<ClearCode>> \o Pixels(1), <<EndCode>>>>),
     <<45>>}

\* the files of up to MaxFrames blocks, with and without trailer; files of
\* an unknown version and of color resolution 7; every cut of one file
Files ==
    {sigGIF \o ver89a \o lsdBytes(<<300, 2>>, pk) \o Flatten(body) \o t :
        pk \in {112, 240},
        body \in UNION {[1..k -> FileBlocks] : k \in 0..MaxFrames},
        t \in {<<59>>, <<>>, <<59, 0>>}}
    \cup {sigGIF \o <<56, 56, 97>> \o lsdBytes(<<300, 2>>, 112) \o <<59>>,
          sigGIF \o ver87a \o lsdBytes(<<300, 2>>, 96) \o <<59>>}
    \cup Prefixes(sigGIF \o ver89a \o lsdBytes(<<300, 2>>, 240) \o gceBlock(1, 300)
                    \o imageBlock(Fr(1, 2, 1, 1, TRUE, FALSE), LitWidth,
                                  <<<<ClearCode>> \o Pixels(1), <<EndCode>>>>)
                    \o <<59>>)

InitStream ==
    /\ pc = "readHeader"
    /\ data = zeroImageData
    /\ nextDelay = 0
    /\ b = NoByte
    /\ label = NoByte
    /\ ret = NoRet
    /\ png = NoPng
    /\ src = NoSrc
    /\ rdr = NoRdr
    /\ stream \in {[bytes |-> f, rest |-> f] : f \in Files}
    /\ alt = NoRet

\* lines 997-1000
StreamHeader ==
    /\ pc = "readHeader"
    /\ \E rh \in {readHeadser(stream.rest)} :
          /\ stream' = [stream EXCEPT !.rest = rh.rest]
          /\ IF rh.err # nil
             THEN pc' = "returned" /\ ret' = [image |-> NoValue, err |-> rh.err]
             ELSE pc' = "readLSD" /\ ret' = ret
    /\ UNCHANGED <<data, nextDelay, b, label, png, src, rdr, alt>>

\* lines 1005-1026
StreamScreen ==
    /\ pc = "readLSD"
    /\ \E sc \in {readScreen(data, stream.rest)} :
          /\ stream' = [stream EXCEPT !.rest = sc.rest]
          /\ IF sc.returned
             THEN /\ pc' = "returned"
                  /\ ret' = [image |-> sc.image, err |-> sc.err]
                  /\ Gone
             ELSE /\ pc' = "loop"
                  /\ ret' = ret
                  /\ data' = sc.data
                  /\ nextDelay' = sc.nextDelay
    /\ UNCHANGED <<b, label, png, src, rdr, alt>>

\* lines 1027-1113, one iteration
StreamBlock ==
    /\ pc = "loop"
    /\ \E o \in {loopBody(data, nextDelay, stream.rest)} :
          /\ stream' = [stream EXCEPT !.rest = o.rest]
          /\ b' = o.b
          /\ label' = o.label
          /\ IF o.returned
             THEN /\ pc' = "returned"
                  /\ ret' = [image |-> o.image, err |-> o.err]
                  /\ Gone
             ELSE /\ pc' = "loopEnd"
                  /\ data' = o.data
                  /\ nextDelay' = o.nextDelay
                  /\ ret' = ret
    /\ UNCHANGED <<png, src, rdr, alt>>

\* ReadGif on the bytes of the same file, from the other reader
Redeliver ==
    /\ pc = "returned"
    /\ pc' = "compared"
    /\ alt' = ReadGif(DataErrReader(stream.bytes))
    /\ UNCHANGED <<data, nextDelay, b, label, ret, png, src, rdr, stream>>

NextStream ==
    \/ StreamHeader
    \/ StreamScreen
    \/ StreamBlock
    \/ LoopBack
    \/ Redeliver

SpecStream == InitStream /\ [][NextStream]_vars

\* ReadGif is one sequential call: it goes on while it has a step to take
SpecStreamFair == SpecStream /\ WF_vars(NextStream)

(***************************************************************************)
(* The properties.                                                         *)
(***************************************************************************)
GoodHeader(blk) ==
    /\ Len(blk) >= 6
    /\ SubSeq(blk, 1, 3) = <<71, 73, 70>>
    /\ SubSeq(blk, 4, 6) \in {<<56, 55, 97>>, <<56, 57, 97>>}

\* C1: ReadGif fails and returns no Image when the first three bytes are not
\* "GIF" or the next three are neither "87a" nor "89a"; with "GIF" and "87a"
\* or "89a" the header check passes and parsing goes on to the Logical
\* Screen Descriptor.
C1_HeaderCheck ==
    src.op = "header" =>
        IF GoodHeader(src.block)
        THEN pc = "readLSD" /\ ret = NoRet
        ELSE pc = "returned" /\ ret.image = NoValue /\ ret.err # nil

\* a "GIF" stream of version "88a" or "89b" was refused
C1_Witness ==
    /\ src.op = "header"
    /\ Len(src.block) = 6
    /\ SubSeq(src.block, 1, 3) = sigGIF
    /\ pc = "returned"
    /\ ret.err = ErrUnknownVersion

\* the runs of unsupported but well-formed input, and of malformed input
UnsupportedVersionRun ==
    /\ src.op = "header"
    /\ Len(src.block) = 6
    /\ SubSeq(src.block, 1, 3) = <<71, 73, 70>>
    /\ ~GoodHeader(src.block)

UnsupportedResolutionRun ==
    /\ src.op = "lsd"
    /\ src.wf
    /\ (src.block[5] \div 16) % 8 # 7

MalformedRun ==
    /\ pc = "returned"
    /\ ret.err # nil
    /\ ~UnsupportedVersionRun
    /\ ~UnsupportedResolutionRun

\* C2: ReadGif fails when the colour resolution is not 8, and unsupported
\* but well-formed input (a version other than 87a/89a, a colour resolution
\* other than 8) is reported with one "not supported" condition, which no
\* malformed input (bad signature, unknown code, short read) is reported with.
C2_OneUnsupportedCondition ==
    /\ UnsupportedResolutionRun =>
          pc = "returned" /\ ret.image = NoValue /\ ret.err = ErrColorResolution
    /\ UnsupportedVersionRun =>
          pc = "returned" /\ ret.image = NoValue /\ ret.err = ErrColorResolution
    /\ MalformedRun => ret.err # ErrColorResolution

\* C3: in the block loop an introducer other than 0x2C, 0x21, 0x3B, and an
\* extension label other than 0xF9, 0xFE, 0x01, 0xFF, make the decode fail
\* at that byte with no Image, whatever frames were accumulated.
C3_UnknownCodesFail ==
    /\ (b # NoByte /\ b \notin {44, 33, 59}) =>
          /\ pc = "returned"
          /\ ret.image = NoValue
          /\ ret.err = ErrUnknownBlock
          /\ src.aligned
    /\ (b = 33 /\ label # NoByte /\ label \notin {249, 254, 1, 255}) =>
          /\ pc = "returned"
          /\ ret.image = NoValue
          /\ ret.err = ErrUnknownExtension
          /\ src.aligned

\* an unknown extension label met after a frame had been read
C3_Witness ==
    /\ src.op = "unknown"
    /\ src.frames > 0
    /\ b = 33
    /\ label = 248
    /\ pc = "returned"

\* C4: ReadGif returns an Image if and only if a trailer 0x3B is read where
\* a block introducer is expected, after a valid header and Logical Screen
\* Descriptor; every other run returns an error and no Image, and no byte
\* after the trailer is read.
C4_ImageIffTrailer ==
    pc = "returned" =>
        /\ (ret.image # NoValue) <=> (src.op = "trailer")
        /\ (ret.image # NoValue) =>
              /\ ret.err = nil
              /\ b = 59
              /\ src.aligned
              /\ \E sz \in ScreenSizes :
                    ret.image.width = sz[1] /\ ret.image.height = sz[2]
        /\ (ret.image = NoValue) => ret.err # nil

\* an Image returned at a trailer that other bytes follow
C4_Witness ==
    /\ pc = "returned"
    /\ ret.image # NoValue
    /\ src.ahead > 0
    /\ src.frames > 0

\* C5: every Image ReadGif returns holds at least one Frame, so that
\* WritePng always finds frames[0]; header, Logical Screen Descriptor and
\* trailer alone do not make a successful Image.
C5_ReturnedImageHasFrame ==
    /\ (pc = "returned" /\ ret.err = nil) => Len(ret.image.frames) >= 1
    /\ png.status # "panic"

\* the rows 0..height-1 in the order of the four passes
RowNumbers(height) == [k \in 1..height |-> k - 1]

PassOrder(height) ==
    SelectSeq(RowNumbers(height), LAMBDA y : y % 8 = 0)
        \o SelectSeq(RowNumbers(height), LAMBDA y : y % 8 = 4)
        \o SelectSeq(RowNumbers(height), LAMBDA y : y % 4 = 2)
        \o SelectSeq(RowNumbers(height), LAMBDA y : y % 2 = 1)

Row(buf, width, y) == SubSeq(buf, y * width + 1, (y + 1) * width)

\* the image block a step met: its width, height and interlace flag
MetWidth == src.block[6] + 256 * src.block[7]
MetHeight == src.block[8] + 256 * src.block[9]
MetInterlaced == (src.block[10] \div 64) % 2 = 1
FrameRead == pc = "loopEnd" /\ src.op = "image"
LastFrame == data.frames[Len(data.frames)]

\* C6: deinterlacing inverts the 4-pass row schedule: when the rows of an
\* interlaced frame arrive in the order pass 1, pass 2, pass 3, pass 4, the
\* buffer ReadGif stores has the row that arrived i-th at the row position
\* the schedule gives it, for every row.  (The rows that arrive are
\* Pixels(width * height), the pixels every image block of the input holds.)
C6_DeinterlaceInvertsSchedule ==
    (FrameRead /\ MetInterlaced) =>
        \A i \in 1..MetHeight :
            Row(LastFrame.data, MetWidth, PassOrder(MetHeight)[i])
                = Row(Pixels(MetWidth * MetHeight), MetWidth, i - 1)

\* the delay field of the Graphic Control Extension a step met
MetDelay == src.block[5] + 256 * src.block[6]

\* C7: a frame carries the DelayTime of the Graphic Control Extension most
\* recently read before its Image Descriptor, 0 if none was read; the
\* pending delay starts at 0, is replaced by each Graphic Control Extension,
\* is kept by every other block (frames included), and each frame appended
\* takes it, the frames before it and the Image returned keeping theirs.
C7_Step ==
    /\ (pc = "readLSD" /\ pc' = "loop") => nextDelay' = 0 /\ data'.frames = <<>>
    /\ (pc = "loop" /\ pc' = "loopEnd") =>
          /\ (src'.op = "gce" /\ src'.wf) => nextDelay' = MetDelay'
          /\ src'.op # "gce" => nextDelay' = nextDelay
          /\ src'.op = "image" =>
                /\ Len(data'.frames) = Len(data.frames) + 1
                /\ SubSeq(data'.frames, 1, Len(data.frames)) = data.frames
                /\ LastFrame'.delay = nextDelay
          /\ src'.op # "image" => data'.frames = data.frames
    /\ (pc = "loopEnd" /\ pc' = "loop") =>
          nextDelay' = nextDelay /\ data'.frames = data.frames
    /\ (pc = "loop" /\ pc' = "returned" /\ ret'.err = nil) =>
          ret'.image.frames = data.frames

C7_DelayFromLastGce == [][C7_Step]_vars

\* an Image whose first frame came before any Graphic Control Extension
\* delay and whose second frame has the delay 300
C7_Witness ==
    /\ pc = "returned"
    /\ ret.err = nil
    /\ Len(ret.image.frames) = 2
    /\ ret.image.frames[1].delay = 0
    /\ ret.image.frames[2].delay = 300

\* C8: the transparency index of a Graphic Control Extension is carried
\* into the next frame: every frame has as its transparency index either the
\* transparent colour index of a Graphic Control Extension of the stream
\* (transparency flag set) or the sentinel -1 (no such extension).
C8_TransparencyCarried ==
    FrameRead => LastFrame.transparencyIndex \in (GceIndices \cup {0 - 1})

\* the step met a Comment, Plain Text or Application extension made of
\* sub-blocks and a zero-length sub-block
MetSkippable == src.op \in {"skipped", "application"} /\ src.wf

Discarded ==
    /\ pc' = "loopEnd"
    /\ src'.aligned
    /\ data' = data
    /\ nextDelay' = nextDelay

\* C9: a Comment, Plain Text or Application extension of any number of
\* sub-blocks and a zero-length sub-block is consumed completely and
\* discarded: ReadGif continues at the byte after it with the image and
\* the pending delay it had before it.
C9_ExtensionDiscarded == [][(pc = "loop" /\ MetSkippable') => Discarded]_vars

\* C9, amended: as C9 for a Comment or Plain Text extension, and for an
\* Application extension whose first sub-block is 11 bytes long; any other
\* Application extension makes ReadGif fail with no Image.
C9_ExtensionDiscardedOrRefused ==
    [][(pc = "loop" /\ MetSkippable') =>
            IF src'.op = "application" /\ src'.block[3] # 11
            THEN pc' = "returned" /\ ret'.image = NoValue /\ ret'.err = ErrBlockSize
            ELSE Discarded]_vars

\* an Application extension of two sub-blocks was passed over after a frame
C9_Witness ==
    /\ pc = "loopEnd"
    /\ src.op = "application"
    /\ src.wf
    /\ Len(src.block) > 15
    /\ src.frames > 0
    /\ src.ahead > 0

\* C10: ReadGif then WritePng emits an IHDR with the first frame's width
\* and height when the GIF has one frame, and the Logical Screen
\* Descriptor's width and height when it has more than one.
C10_IhdrSize ==
    (pc = "written" /\ png.status = "written") =>
        IF Len(ret.image.frames) = 1
        THEN /\ png.chunks[1].Width = ret.image.frames[1].width
             /\ png.chunks[1].Height = ret.image.frames[1].height
        ELSE /\ png.chunks[1].Width = ret.image.width
             /\ png.chunks[1].Height = ret.image.height

\* WritePng returned nil; the payload of the k-th chunk of the output
Written == pc = "written" /\ png.status = "written"
PayloadAt(k) == png.writes[4 * k]
TypeAt(k) == png.writes[4 * k - 1]
ChunkCount == (Len(png.writes) - 1) \div 4

\* C11: the PLTE chunk holds, entry by entry as (R,G,B), the effective
\* palette of the decoded image: the local color table read from the source
\* when the frame has one, otherwise the global color table (stated for the
\* images of one frame; LocalTable and GlobalTable are the tables of the
\* input).
C11_PlteIsEffectivePalette ==
    (Written /\ Len(ret.image.frames) = 1) =>
        PayloadAt(2) =
            IF ret.image.frames[1].palette # <<>> THEN LocalTable
            ELSE IF ret.image.palette # <<>> THEN GlobalTable
            ELSE <<>>

\* the offsets of the image block a step met
MetLeft == src.block[2] + 256 * src.block[3]
MetTop == src.block[4] + 256 * src.block[5]

\* C20: the frames of the Image returned are the Image Descriptor blocks of
\* the stream, one Frame per block in stream order, each with the offset,
\* width and height of its own descriptor; a block read later changes no
\* frame already appended, and the Image returned holds these frames.
C20_Step ==
    /\ (pc = "readLSD" /\ pc' = "loop") => data'.frames = <<>>
    /\ (pc = "loop" /\ pc' = "loopEnd") =>
          IF src'.op = "image"
          THEN /\ Len(data'.frames) = Len(data.frames) + 1
               /\ \A k \in 1..Len(data.frames) : data'.frames[k] = data.frames[k]
               /\ LastFrame'.xOffset = MetLeft'
               /\ LastFrame'.yOffset = MetTop'
               /\ LastFrame'.width = MetWidth'
               /\ LastFrame'.height = MetHeight'
          ELSE data'.frames = data.frames
    /\ (pc = "loop" /\ pc' = "returned") =>
          IF src'.op = "trailer"
          THEN ret'.image.frames = data.frames
          ELSE ret'.image = NoValue
    /\ (pc = "loopEnd" /\ pc' = "loop") => data'.frames = data.frames

C20_FramesAreImageBlocks == [][C20_Step]_vars

\* a second frame, at offset (1, 2), appended after a first
C20_Witness ==
    /\ pc = "loopEnd"
    /\ src.op = "image"
    /\ Len(data.frames) = 2
    /\ LastFrame.xOffset = 1
    /\ LastFrame.yOffset = 2

\* a 4-byte big-endian integer read back
BE32(s) == ((s[1] * 256 + s[2]) * 256 + s[3]) * 256 + s[4]

ChunkTypes ==
    {<<73, 72, 68, 82>>, <<80, 76, 84, 69>>, <<116, 82, 78, 83>>, <<97, 99, 84, 76>>,
     <<102, 99, 84, 76>>, <<73, 68, 65, 84>>, <<102, 100, 65, 84>>, <<73, 69, 78, 68>>}

\* C12: every chunk is emitted as four fields in this order: the payload
\* length as 4 bytes big-endian, the 4-byte type, the payload, and the CRC32
\* taken over the type bytes followed by the payload bytes (not over the
\* length); so for every chunk type written, the empty IEND included.
C12_ChunkFraming ==
    pc = "written" =>
        \A k \in 1..ChunkCount :
            /\ Len(png.writes[4 * k - 2]) = 4
            /\ BE32(png.writes[4 * k - 2]) = Len(PayloadAt(k))
            /\ TypeAt(k) \in ChunkTypes
            /\ png.writes[4 * k + 1] = <<[crc32 |-> TypeAt(k) \o PayloadAt(k)]>>

\* an animated image was written whole: every chunk type, IEND last
C12_Witness ==
    /\ Written
    /\ ChunkCount = 9
    /\ TypeAt(3) = <<116, 82, 78, 83>>
    /\ TypeAt(8) = <<102, 100, 65, 84>>
    /\ TypeAt(9) = <<73, 69, 78, 68>>
    /\ PayloadAt(9) = <<>>

TypeIHDR == <<73, 72, 68, 82>>
TypePLTE == <<80, 76, 84, 69>>
TypeTRNS == <<116, 82, 78, 83>>
TypeACTL == <<97, 99, 84, 76>>
TypeFCTL == <<102, 99, 84, 76>>
TypeIDAT == <<73, 68, 65, 84>>
TypeFDAT == <<102, 100, 65, 84>>
TypeIEND == <<73, 69, 78, 68>>

\* the types of the chunks written, in the order written
TypesWritten == [k \in 1..ChunkCount |-> TypeAt(k)]

\* what precedes the image data: IHDR, PLTE, and tRNS when the index is set
Preamble ==
    <<TypeIHDR, TypePLTE>>
        \o (IF ret.image.transparencyIndex # 0 - 1 THEN <<TypeTRNS>> ELSE <<>>)

\* C13: for an Image of exactly one frame a successful WritePng writes the
\* 8-byte signature, one IHDR, one PLTE, one tRNS only if the transparency
\* index is set, one IDAT, one IEND, and nothing else: no acTL, fcTL or
\* fdAT, and IEND is the last thing written.
C13_StillSequence ==
    (Written /\ Len(ret.image.frames) = 1) =>
        /\ png.writes[1] = <<137, 80, 78, 71, 13, 10, 26, 10>>
        /\ Len(png.writes) = 1 + 4 * ChunkCount
        /\ TypesWritten = Preamble \o <<TypeIDAT, TypeIEND>>

\* a one-frame image without transparency index was written
C13_Witness ==
    /\ Written
    /\ Len(ret.image.frames) = 1
    /\ ret.image.transparencyIndex = 0 - 1
    /\ ChunkCount = 4

\* the scanlines of a frame: for each row a 0 and the row's pixels
Scanlines(f) ==
    [i \in 1..((f.width + 1) * f.height) |->
        IF (i - 1) % (f.width + 1) = 0 THEN 0
        ELSE f.data[((i - 1) \div (f.width + 1)) * f.width + ((i - 1) % (f.width + 1))]]

\* in the animated path: the chunk that holds acTL, the fcTL of frame k and
\* the data chunk of frame k
ActlAt == Len(Preamble) + 1
FctlAt(k) == ActlAt + 2 * k - 1
DataAt(k) == ActlAt + 2 * k
Animated == Written /\ Len(ret.image.frames) > 1

RECURSIVE FrameTypes(_)
FrameTypes(n) ==
    IF n = 0 THEN <<>>
    ELSE IF n = 1 THEN <<TypeFCTL, TypeIDAT>>
    ELSE FrameTypes(n - 1) \o <<TypeFCTL, TypeFDAT>>

\* C14: for an Image of N > 1 frames a successful WritePng writes, after
\* PLTE and the optional tRNS, one acTL with frame count N and num-plays 0,
\* then for each frame in order one fcTL and right after it the frame's data
\* chunk, an IDAT for the first frame and an fdAT (a 4-byte sequence number,
\* then the compressed scanlines) for every later one, then one IEND.
C14_AnimatedSequence ==
    Animated =>
        /\ TypesWritten
              = Preamble \o <<TypeACTL>> \o FrameTypes(Len(ret.image.frames))
                    \o <<TypeIEND>>
        /\ Len(PayloadAt(ActlAt)) = 8
        /\ BE32(SubSeq(PayloadAt(ActlAt), 1, 4)) = Len(ret.image.frames)
        /\ BE32(SubSeq(PayloadAt(ActlAt), 5, 8)) = 0
        /\ PayloadAt(DataAt(1)) = <<[zlib |-> Scanlines(ret.image.frames[1])]>>
        /\ \A k \in 2..Len(ret.image.frames) :
              /\ Len(PayloadAt(DataAt(k))) = 5
              /\ PayloadAt(DataAt(k))[5] = [zlib |-> Scanlines(ret.image.frames[k])]

\* an image of MaxFrames frames with a transparency index was written
C14_Witness ==
    /\ Animated
    /\ Len(ret.image.frames) = MaxFrames
    /\ ret.image.transparencyIndex = 1
    /\ TypeAt(ChunkCount) = TypeIEND

\* the number a chunk carries in its first four bytes
NumberAt(k) == BE32(SubSeq(PayloadAt(k), 1, 4))

\* C15: in the animated path the sequence counter starts at 0 for the first
\* fcTL and goes up by one for every fcTL and for every IDAT or fdAT, so
\* the j-th of the 2N chunks after acTL (j from 0) has the number j, IDAT,
\* which carries none, taking the number 1.
C15_NumbersCountDataChunks ==
    Animated =>
        \A j \in 0..(2 * Len(ret.image.frames) - 1) :
            TypeAt(ActlAt + 1 + j) # TypeIDAT => NumberAt(ActlAt + 1 + j) = j

\* C15, amended: the counter goes up by one for every fcTL and every fdAT,
\* not for IDAT: the N fcTL and N - 1 fdAT chunks carry 0..2N-2 in the order
\* written.
C15_NumbersSkipIdat ==
    Animated =>
        /\ NumberAt(ActlAt + 1) = 0
        /\ \A j \in 2..(2 * Len(ret.image.frames) - 1) :
              NumberAt(ActlAt + 1 + j) = j - 1

\* the last fdAT of an image of MaxFrames frames has the number 2N - 2
C15_Witness ==
    /\ Animated
    /\ Len(ret.image.frames) = MaxFrames
    /\ TypeAt(ChunkCount - 1) = TypeFDAT
    /\ NumberAt(ChunkCount - 1) = 2 * MaxFrames - 2

BE16(s) == s[1] * 256 + s[2]

\* C16: every fcTL chunk written for a frame carries that frame's width,
\* height, x offset and y offset, the frame's delay as delay numerator, the
\* delay denominator 100, dispose-op 0, and blend-op 0 when the frame's
\* transparency index is -1 and 1 otherwise.
C16_FctlFields ==
    Animated =>
        \A k \in 1..Len(ret.image.frames) :
            /\ TypeAt(FctlAt(k)) = TypeFCTL
            /\ Len(PayloadAt(FctlAt(k))) = 26
            /\ BE32(SubSeq(PayloadAt(FctlAt(k)), 5, 8)) = ret.image.frames[k].width
            /\ BE32(SubSeq(PayloadAt(FctlAt(k)), 9, 12)) = ret.image.frames[k].height
            /\ BE32(SubSeq(PayloadAt(FctlAt(k)), 13, 16)) = ret.image.frames[k].xOffset
            /\ BE32(SubSeq(PayloadAt(FctlAt(k)), 17, 20)) = ret.image.frames[k].yOffset
            /\ BE16(SubSeq(PayloadAt(FctlAt(k)), 21, 22)) = ret.image.frames[k].delay
            /\ BE16(SubSeq(PayloadAt(FctlAt(k)), 23, 24)) = 100
            /\ PayloadAt(FctlAt(k))[25] = 0
            /\ PayloadAt(FctlAt(k))[26]
                  = IF ret.image.frames[k].transparencyIndex = 0 - 1 THEN 0 ELSE 1

\* fcTL chunks written for a frame without transparency index and, after
\* it, for a frame with one, a delay of 300 and the offset (1, 2)
C16_Witness ==
    /\ Animated
    /\ ret.image.frames[1].transparencyIndex = 0 - 1
    /\ ret.image.frames[2].transparencyIndex = 1
    /\ ret.image.frames[2].delay = 300
    /\ PayloadAt(FctlAt(1))[26] = 0
    /\ PayloadAt(FctlAt(2))[26] = 1

\* C17: WritePng writes a tRNS chunk if and only if the image's
\* transparency index is not -1; its payload has as many bytes as the
\* palette has entries, the byte at the transparency index 0 and every
\* other byte 255.
C17_TrnsChunk ==
    Written =>
        /\ \A k \in 1..ChunkCount : TypeAt(k) = TypeTRNS => k = 3
        /\ (TypeAt(3) = TypeTRNS) <=> (ret.image.transparencyIndex # 0 - 1)
        /\ TypeAt(3) = TypeTRNS =>
              /\ Len(PayloadAt(3)) = Len(ret.image.palette)
              /\ \A i \in 1..Len(PayloadAt(3)) :
                    PayloadAt(3)[i]
                        = IF i - 1 = ret.image.transparencyIndex THEN 0 ELSE 255

\* a tRNS of two bytes with the second one 0
C17_Witness ==
    /\ Written
    /\ ret.image.transparencyIndex = 1
    /\ TypeAt(3) = TypeTRNS
    /\ PayloadAt(3) = <<255, 0>>

\* the data chunk of frame k, in the still and in the animated path
FrameDataAt(k) ==
    IF Len(ret.image.frames) = 1 THEN Len(Preamble) + 1 ELSE DataAt(k)

DataChunks == {k \in 1..ChunkCount : TypeAt(k) \in {TypeIDAT, TypeFDAT}}

\* C18: for every frame the buffer handed to the compressor has
\* (width+1)*height bytes, for each row in order a filter byte 0 and the
\* row's width pixel indices, and what the compressor makes of it is the
\* payload of exactly one IDAT or fdAT chunk.
C18_ScanlinesInOneChunk ==
    Written =>
        /\ DataChunks = {FrameDataAt(k) : k \in 1..Len(ret.image.frames)}
        /\ Cardinality(DataChunks) = Len(ret.image.frames)
        /\ \A k \in 1..Len(ret.image.frames) :
              /\ Len(PayloadAt(FrameDataAt(k))[Len(PayloadAt(FrameDataAt(k)))].zlib)
                    = (ret.image.frames[k].width + 1) * ret.image.frames[k].height
              /\ PayloadAt(FrameDataAt(k))[Len(PayloadAt(FrameDataAt(k)))].zlib
                    = Scanlines(ret.image.frames[k])

\* an image whose last frame has MaxHeight rows was written
C18_Witness ==
    /\ Written
    /\ Len(ret.image.frames) = MaxFrames
    /\ ret.image.frames[MaxFrames].height = MaxHeight
    /\ TypeAt(FrameDataAt(MaxFrames)) = TypeFDAT

\* C19: when a write to the output fails during WritePng (the signature or
\* any of the four fields of any chunk), WritePng returns that error and
\* makes no further write; and it returns nil only when no write failed.
C19_WriteErrorStops ==
    pc = "written" =>
        /\ png.status = "failed" =>
              /\ png.err = ErrWrite
              /\ png.n = png.failAt
              /\ Len(png.writes) = png.failAt - 1
        /\ png.status = "written" =>
              /\ png.err = nil
              /\ Len(png.writes) = png.n
              /\ png.failAt = 0 \/ png.failAt > png.n
        /\ png.status \in {"failed", "written", "panic"}

\* the write of the checksum of the third chunk failed
C19_Witness ==
    /\ pc = "written"
    /\ png.status = "failed"
    /\ png.failAt = 13
    /\ Len(png.writes) = 12

(***************************************************************************)
(* The image block a step met, read from its bytes: the local color table  *)
(* flag, the code size, the sub-blocks of the data, and the indices the    *)
(* codes stand for.                                                        *)
(***************************************************************************)
MetLct == src.block[10] >= 128
MetLitAt == 11 + (IF MetLct THEN Len(LocalTable) ELSE 0)
MetWhole == src.op = "image" /\ Len(src.block) >= 10 /\ Len(src.block) > MetLitAt
MetLit == src.block[MetLitAt]
MetChain == SubSeq(src.block, MetLitAt + 1, Len(src.block))

\* the chain s ends with its zero-length sub-block
RECURSIVE Terminated(_)
Terminated(s) ==
    IF Len(s) = 0 THEN FALSE
    ELSE IF Head(s) = 0 THEN Len(s) = 1
    ELSE Len(s) > Head(s) /\ Terminated(SubSeq(s, Head(s) + 2, Len(s)))

\* the payloads of the sub-blocks of s up to the first zero-length one
RECURSIVE Payloads(_)
Payloads(s) ==
    IF Len(s) = 0 \/ Head(s) = 0 THEN <<>>
    ELSE SubSeq(s, 2, Min(Len(s), Head(s) + 1)) \o Payloads(SubSeq(s, Head(s) + 2, Len(s)))

\* the indices a code stream stands for, up to its end code or a bad code
RECURSIVE Indices(_)
Indices(codes) ==
    IF Len(codes) = 0 THEN <<>>
    ELSE IF Head(codes) < ClearCode THEN <<Head(codes)>> \o Indices(Tail(codes))
    ELSE IF Head(codes) = ClearCode THEN Indices(Tail(codes))
    ELSE <<>>

MetIndices ==
    IF MetLit < 2 \/ MetLit > 8 THEN <<>> ELSE Indices(Payloads(MetChain))

\* C21: every Frame of ReadGif's image, while it is built and when it is
\* returned, has a pixel buffer of width*height bytes, interlaced or not;
\* and an image block whose data stands for fewer than width*height indices
\* makes the decode fail with no Image and appends no frame.
C21_BufferIsWidthTimesHeight ==
    /\ \A k \in 1..Len(data.frames) :
          Len(data.frames[k].data) = data.frames[k].width * data.frames[k].height
    /\ (pc \in {"returned", "written"} /\ ret.err = nil) =>
          \A k \in 1..Len(ret.image.frames) :
              Len(ret.image.frames[k].data)
                  = ret.image.frames[k].width * ret.image.frames[k].height
    /\ (MetWhole /\ Len(MetIndices) < MetWidth * MetHeight) =>
          pc = "returned" /\ ret.image = NoValue /\ ret.err # nil

\* an interlaced frame of MaxHeight rows whose data is one index short was
\* refused after a frame had been read
C21_Witness ==
    /\ MetWhole
    /\ MetInterlaced
    /\ MetHeight = MaxHeight
    /\ Len(MetIndices) = MetWidth * MetHeight - 1
    /\ src.frames > 0
    /\ pc = "returned"
    /\ ret.err = ErrUnexpectedEOF

Entries(t) ==
    [k \in 1..(Len(t) \div 3) |-> [r |-> t[3 * k - 2], g |-> t[3 * k - 1], b |-> t[3 * k]]]

\* C23: a local color table applies to its own frame only: an image block
\* with a local color table gives the frame appended that table as its
\* palette, an image block without one gives it no palette, and every block
\* leaves the Image's global palette and the frames appended before it
\* (their palettes included) as they were, up to the Image returned.
C23_Step ==
    /\ (pc = "loop" /\ pc' = "loopEnd") =>
          /\ data'.palette = data.palette
          /\ IF src'.op = "image"
             THEN /\ SubSeq(data'.frames, 1, Len(data.frames)) = data.frames
                  /\ LastFrame'.palette = IF MetLct' THEN Entries(LocalTable) ELSE <<>>
             ELSE data'.frames = data.frames
    /\ (pc = "loopEnd" /\ pc' = "loop") => data' = data
    /\ (pc = "loop" /\ pc' = "returned" /\ ret'.err = nil) => ret'.image = data

C23_LocalTableOwnFrameOnly == [][C23_Step]_vars

\* after a frame with a local color table, a frame without one was appended
\* to an image that has a global palette
C23_Witness ==
    /\ FrameRead
    /\ Len(data.frames) = 2
    /\ data.frames[1].palette = Entries(LocalTable)
    /\ data.frames[2].palette = <<>>
    /\ data.palette = Entries(GlobalTable)

\* of a chain s, g bytes of whose payloads were delivered: the bytes of the
\* sub-block then current that remain, and whether the stream ends before
\* that sub-block is complete
RECURSIVE Unread(_, _)
Unread(s, g) ==
    IF Len(s) = 0 \/ Head(s) = 0 THEN 0
    ELSE IF g < Head(s) THEN Head(s) - g
    ELSE Unread(SubSeq(s, Head(s) + 2, Len(s)), g - Head(s))

RECURSIVE CutShort(_, _)
CutShort(s, g) ==
    IF Len(s) = 0 THEN TRUE
    ELSE IF Head(s) = 0 THEN FALSE
    ELSE IF Len(s) <= Head(s) THEN TRUE
    ELSE IF g < Head(s) THEN FALSE
    ELSE CutShort(SubSeq(s, Head(s) + 2, Len(s)), g - Head(s))

\* the payload bytes delivered before the last Read
Before == Len(rdr.got) - rdr.n

\* C24: the block reader hides the sub-block framing.  After every Read:
\* what the Reads returned so far is, in order, the start of the payloads
\* of the sub-blocks up to the first zero-length one, and all of them once
\* a Read returns io.EOF; the Read returned no more than min(len(p), bytes
\* unread in the current sub-block); 0 <= bufNext <= bufLen <= 255; and a
\* Read that meets the end of the stream before a sub-block is complete
\* returns io.ErrUnexpectedEOF and no data.
C24_FramingHidden ==
    pc = "blockReader" =>
        /\ rdr.got = Take(Payloads(rdr.stream), Len(rdr.got))
        /\ Len(rdr.got) <= Len(Payloads(rdr.stream))
        /\ rdr.err = EOF => rdr.got = Payloads(rdr.stream) /\ rdr.n = 0
        /\ rdr.n <= Min(rdr.plen, Unread(rdr.stream, Before))
        /\ 0 <= rdr.v.bufNext
        /\ rdr.v.bufNext <= rdr.v.bufLen
        /\ rdr.v.bufLen <= 255
        /\ rdr.err \in {nil, EOF, ErrUnexpectedEOF}
        /\ (rdr.plen > 0 /\ CutShort(rdr.stream, Before)) <=> rdr.err = ErrUnexpectedEOF
        /\ rdr.err = ErrUnexpectedEOF => rdr.n = 0

\* the second sub-block of a chain was being handed out after a 255-byte
\* first one had been read in several Reads
C24_Witness ==
    /\ pc = "blockReader"
    /\ Len(rdr.got) = blockBufSize + 1
    /\ rdr.plen = graphicControlExtensionSize
    /\ rdr.n = 1
    /\ rdr.err = nil

\* C25: once the width*height indices of a frame have been decompressed,
\* ReadGif consumes the rest of the frame's chain of sub-blocks up to and
\* including its zero-length terminator and nothing after it: the frame is
\* appended and the next introducer is the byte that follows the terminator.
C25_ChainConsumed ==
    (MetWhole /\ Terminated(MetChain) /\ Len(MetIndices) >= MetWidth * MetHeight) =>
        pc = "loopEnd" /\ src.aligned

\* a skipBlock iteration at the stream s: it returns, or it has consumed at
\* least one byte and left the buffer empty for the next iteration
SkipIterationAt(s) ==
    \E rd \in {blockRead(newBlockReader(s), blockBufSize)} :
        \/ rd.err # nil
        \/ Len(rd.v.r) < Len(s) /\ rd.v.bufNext >= rd.v.bufLen

SkipProgress ==
    \A k \in 0..Len(stream.rest) : SkipIterationAt(Drop(stream.rest, k))

LoopProgress ==
    pc = "loop" => pc' = "returned" \/ Len(stream'.rest) < Len(stream.rest)

\* C26: ReadGif terminates on every finite stream: every iteration of the
\* block loop consumes at least one byte of the stream or returns, every
\* iteration of the skipping loop, wherever in the stream it starts,
\* consumes at least one byte or returns, and every run reaches the return
\* of ReadGif, with an Image or with an error.
C26_Terminates ==
    /\ [][LoopProgress]_vars
    /\ [](SkipProgress)
    /\ <>(pc = "compared" /\ (ret.image # NoValue \/ ret.err # nil))

\* a file of MaxFrames blocks and a trailer was read to its end
C26_Witness ==
    /\ pc = "compared"
    /\ ret.err = nil
    /\ Len(ret.image.frames) = MaxFrames
    /\ stream.rest = <<>>
    /\ Len(stream.bytes) > 0

\* C27: the outcome of ReadGif depends on the bytes of the stream only: for
\* the same bytes, a reader that returns the final byte together with
\* end-of-file leads to the same success or failure and the same Image as
\* a reader that returns every request in full and end-of-file afterwards.
C27_SameOutcomeForAnyReader ==
    pc = "compared" =>
        /\ (alt.err = nil) <=> (ret.err = nil)
        /\ alt.image = ret.image

\* the field of 4 bytes at `at` of the payload of the k-th chunk
Field32(k, at) == BE32(SubSeq(PayloadAt(k), at, at + 3))

\* C28: in every animation encoded from an Image ReadGif returned, each
\* frame's region lies inside the canvas that IHDR declares: for every fcTL
\* written, x offset + width <= IHDR width and y offset + height <= IHDR
\* height.
C28_FramesInsideCanvas ==
    Animated =>
        \A k \in 1..Len(ret.image.frames) :
            /\ Field32(FctlAt(k), 13) + Field32(FctlAt(k), 5) <= Field32(1, 1)
            /\ Field32(FctlAt(k), 17) + Field32(FctlAt(k), 9) <= Field32(1, 5)

\* C29: every pixel index stored in a frame of an Image ReadGif returned is
\* smaller than the number of entries of the palette WritePng writes to PLTE
\* for that image, also when the source has no color table at all.
C29_PixelsInsidePalette ==
    Written =>
        \A k \in 1..Len(ret.image.frames) :
            \A i \in 1..Len(ret.image.frames[k].data) :
                ret.image.frames[k].data[i] < Len(PayloadAt(2)) \div 3

====
